---------------------------- MODULE Spec2Model ----------------------------
(***************************************************************************)
(* ARIA agent: the /voice/stream WebSocket handler (voice_routes.py), the  *)
(* VoiceService it calls (voice_service.py) and the Redis history cache    *)
(* (redis_client.py).                                                      *)
(*                                                                         *)
(* One step of the model is the code of voice_stream between two await     *)
(* points: asyncio switches tasks only at an await, so everything between  *)
(* two awaits is atomic with respect to the other connections.  pc[c] is   *)
(* the await connection c is suspended at.                                 *)
(*                                                                         *)
(* Python values: a dict is a function whose DOMAIN is the set of keys that *)
(* are present, None is the record None, a JSON value carries its kind in  *)
(* the field t.  The timestamp of a history entry (datetime.utcnow) is not *)
(* modelled.                                                               *)
(***************************************************************************)
EXTENDS Integers, Sequences, FiniteSets, TLC

VARIABLES
    voice_service,       \* the module-level VoiceService(): its credentials
    redis_client,        \* redis_client._redis_client: created or not
    active_connections,  \* keys of voice_routes.active_connections
    store,               \* Redis: key -> list of entries (<<>>: no such key)
    ttl,                 \* Redis: key -> an expiry is set on the key
    pc,                  \* connection -> await point of its voice_stream task
    open,                \* connection -> the transport is open
    buffered,            \* connection -> frames sent by the client, not yet received
    frames_left,         \* frames the clients may still send (bound of the run)
    client_frames,       \* connection -> the frames its client can send
    message,             \* local `message` (the parsed frame being handled)
    user_context,        \* local `user_context`
    history_key,         \* local `history_key`
    conversation_history,\* local `conversation_history`
    transcript,          \* local `transcript`
    response_text,       \* local `response_text`
    audio,               \* local `audio_data`, then `audio_response`
    error,               \* the exception being handled or propagated
    sent,                \* envelopes sent while handling the current frame
    calls                \* collaborator calls made while handling the current frame

vars == <<voice_service, redis_client, active_connections, store, ttl, pc, open,
          buffered, frames_left, client_frames, message, user_context,
          history_key, conversation_history, transcript, response_text, audio,
          error, sent, calls>>

---------------------------------------------------------------------------
(* Bounds of the model *)

MaxFrames == 4       \* frames sent by the client of the single-connection runs
MaxPairFrames == 3   \* frames sent by the two clients of the two-connection runs
MaxProviderFrames == 3 \* frames sent by the client of the provider runs
MaxHistoryFrames == 3  \* frames sent by the client of the history runs
MaxLogLen == 12        \* entries of the log the history runs start with
MaxLiveFrames == 2     \* frames sent by the client of the progress runs
MaxCrossFrames == 3    \* frames sent by the two clients of the two-user runs

Conns == {"c1", "c2"}

---------------------------------------------------------------------------
(* Python and JSON values *)

None == [None |-> TRUE]
EmptyDict == [k \in {} |-> ""]
Unbound == "<unbound>"

Get(d, k, default) == IF k \in DOMAIN d THEN d[k] ELSE default

\* bool(x) for x None or a dict: `if user_context`
Truthy(d) == d # None /\ DOMAIN d # {}

JObj(d) == [t |-> "obj", v |-> d]
JStr(s) == [t |-> "str", v |-> s]
JNull == [t |-> "null"]

\* A test for the key alone (`is not None`), which takes "" for a user
HasUserIdKey(d) == "userId" \in DOMAIN d

\* user_context.get("userId") is truthy
HasUserId(d) == "userId" \in DOMAIN d /\ d["userId"] # ""

\* `user_context and user_context.get("userId")`
ContextHasUser(ctx) == Truthy(ctx) /\ HasUserId(ctx)

\* A key without the user id: one log for all users
HistoryKeyShared(user_id) == "conversation:"

\* f"conversation:{user_id}"
HistoryKey(user_id) == "conversation:" \o user_id

Users == {"u1", "u2"}
\* Redis holds any key: the users' logs and the log of the empty user id
Keys == {HistoryKey(u) : u \in Users \cup {""}}

---------------------------------------------------------------------------
(* base64: the payloads the clients send and their decoding *)

B64Table == [QTA |-> "A0", QTE |-> "A1", QTI |-> "A2"]

\* base64.b64decode(message.get("data")): the bytes, or the exception raised
B64Decode(data) ==
    CASE data.t # "str" ->
            [ok |-> FALSE, kind |-> "TypeError",
             msg |-> "argument should be a bytes-like object or ASCII string"]
      [] data.v = "QTA=" -> [ok |-> TRUE, bytes |-> B64Table.QTA]
      [] data.v = "QTE=" -> [ok |-> TRUE, bytes |-> B64Table.QTE]
      [] data.v = "QTI=" -> [ok |-> TRUE, bytes |-> B64Table.QTI]
      [] OTHER ->
            [ok |-> FALSE, kind |-> "binascii.Error", msg |-> "Incorrect padding"]

B64Encode(bytes) == "b64(" \o bytes \o ")"

---------------------------------------------------------------------------
(* The providers' answers, as functions of what they are asked *)

\* result.get("text", "") of the Whisper answer: A0 is silence
Whisper(bytes) ==
    CASE bytes = "A0" -> ""
      [] bytes = "A1" -> "hi"
      [] OTHER -> "bye"

ClaudeText(prompt) == "re:" \o prompt
ClaudeFallback == "I'm sorry, I encountered an error processing your request."
GeminiText == "Gemini integration coming soon."
OpenAIText == "OpenAI integration coming soon."

EdgeTts(text, voice_name) == "mp3(" \o text \o ")"

\* A default that names another provider
DefaultProviderGemini == "gemini"

DefaultProvider == "claude"
DefaultVoice == "en-US-AriaNeural"
\* pitch, rate and volume in tenths: 10 is the 1.0 of the source
DefaultPitch == 10
DefaultRate == 10
DefaultVolume == 10

---------------------------------------------------------------------------
(* Envelopes sent to the client *)

ReadyEnv == [type |-> "ready", message |-> "Voice service ready"]
ProcessingEnv(status) == [type |-> "processing", status |-> status]
TranscriptEnv(text) == [type |-> "transcript", text |-> text]
ResponseEnv(text) == [type |-> "response", text |-> text]
AudioEnv(b64) == [type |-> "audio", audio |-> b64]
ErrorEnv(msg) == [type |-> "error", message |-> msg]
InternalErrorEnv == ErrorEnv("Internal server error")

---------------------------------------------------------------------------
(* Exceptions *)

NoExc == [kind |-> "none", msg |-> ""]
Exc(kind, msg) == [kind |-> kind, msg |-> msg]

\* What send_json raises on a closed transport depends on the ASGI server and
\* on the Starlette version: WebSocketDisconnect, or another exception
\* (RuntimeError: Cannot call "send" once a close message has been sent).
SendFailures ==
    { Exc("WebSocketDisconnect", "1006"),
      Exc("RuntimeError", "Cannot call send once a close message has been sent") }

Call(op, arg, ok) == [op |-> op, arg |-> arg, ok |-> ok]

---------------------------------------------------------------------------
(* Frames *)

InvalidJson == [json |-> "invalid"]
NonObjectJson == [json |-> "nonobject"]
Frame(body) == [json |-> "object", body |-> body]

ContextFrame(d) == Frame([type |-> "context", data |-> JObj(d)])
AudioFrame(s) == Frame([type |-> "audio", data |-> JStr(s)])

CtxAnon == [userId |-> ""]
CtxU1 == [userId |-> "u1"]
CtxU2Gemini == [userId |-> "u2", llmProvider |-> "gemini",
                voicePreferences |-> [name |-> "en-GB-SoniaNeural",
                                      pitch |-> 15]]
CtxUnknownProvider == [llmProvider |-> "mistral"]

CtxData == {EmptyDict, CtxAnon, CtxU1, CtxU2Gemini, CtxUnknownProvider}

AllFrames ==
    {InvalidJson, NonObjectJson}
    \cup {ContextFrame(d) : d \in CtxData}
    \cup {Frame([type |-> "context"]),
          Frame([type |-> "context", data |-> JStr("u1")])}
    \cup {AudioFrame(s) : s \in {"QTA=", "QTE=", "QTE"}}
    \cup {Frame([type |-> "audio"]), Frame([type |-> "ping"]), Frame(EmptyDict)}

\* The two-connection runs: both clients name the same user, each sends its
\* own audio.
OwnAudio(c) == IF c = "c1" THEN "QTE=" ELSE "QTI="

PairFrames(c) == {ContextFrame(CtxU1), AudioFrame(OwnAudio(c))}

\* The provider runs: the context names user u1 and one of the providers
\* get_llm_response knows, or it names a provider get_llm_response does not
\* know; the audio is transcribed to "hi".
Providers == {"claude", "gemini", "openai"}

ProviderCtx(p) == [userId |-> "u1", llmProvider |-> p]

ProviderFrames ==
    {ContextFrame(ProviderCtx(p)) : p \in Providers}
    \cup {ContextFrame(CtxUnknownProvider), AudioFrame("QTE=")}

\* The two-user runs: each client sends its own audio and can name user u2
CrossFrames(c) == {ContextFrame(CtxU2Gemini), AudioFrame(OwnAudio(c))}

NoMessage == [json |-> "unbound"]
UnboundList == [unbound |-> TRUE]
List(s) == [items |-> s]

IsObject(f) == f.json = "object"
\* A lookup that takes a frame without type for an audio event
MsgTypeDefaultAudio(f) == Get(f.body, "type", "audio")

\* message.get("type")
MsgType(f) == Get(f.body, "type", "None")
\* message.get("data", {})
MsgData(f) == Get(f.body, "data", JObj(EmptyDict))
\* message.get("data")
MsgDataOrNone(f) == Get(f.body, "data", JNull)

---------------------------------------------------------------------------
(* Redis *)

HistoryWindow == 10

\* LRANGE key 0 9: the first HistoryWindow entries
LrangeOldest(s) ==
    IF Len(s) <= HistoryWindow THEN s ELSE SubSeq(s, 1, HistoryWindow)

\* LRANGE key -10 -1: the last HistoryWindow entries, oldest first
Lrange(s) ==
    IF Len(s) <= HistoryWindow THEN s
    ELSE SubSeq(s, Len(s) - HistoryWindow + 1, Len(s))

\* LPUSH key entry: the entry becomes the head of the list
Lpush(st, key, entry) == [st EXCEPT ![key] = <<entry>> \o @]

\* RPUSH key entry: creates the key (without expiry) when it does not exist
Rpush(st, key, entry) == [st EXCEPT ![key] = Append(@, entry)]

\* EXPIRE key 86400: sets the expiry of an existing key
ExpireKey(t, st, key) == [t EXCEPT ![key] = (st[key] # <<>>)]

Entry(role, content) == [role |-> role, content |-> content]

---------------------------------------------------------------------------
(* Initial states *)

KeyVals == {"", "sk"}

InitCommon ==
    /\ redis_client = FALSE
    /\ active_connections = {}
    /\ store = [k \in Keys |-> <<>>]
    /\ ttl = [k \in Keys |-> FALSE]
    /\ pc = [c \in Conns |-> "accept"]
    /\ open = [c \in Conns |-> FALSE]
    /\ buffered = [c \in Conns |-> 0]
    /\ message = [c \in Conns |-> NoMessage]
    /\ user_context = [c \in Conns |-> None]
    /\ history_key = [c \in Conns |-> Unbound]
    /\ conversation_history = [c \in Conns |-> UnboundList]
    /\ transcript = [c \in Conns |-> Unbound]
    /\ response_text = [c \in Conns |-> Unbound]
    /\ audio = [c \in Conns |-> Unbound]
    /\ error = [c \in Conns |-> NoExc]
    /\ sent = [c \in Conns |-> <<>>]
    /\ calls = [c \in Conns |-> <<>>]

\* One client, every kind of frame, every configuration of the credentials
Init ==
    /\ InitCommon
    /\ voice_service \in [groq_api_key : KeyVals, claude_api_key : KeyVals]
    /\ client_frames = [c \in Conns |-> IF c = "c1" THEN AllFrames ELSE {}]
    /\ frames_left = MaxFrames

\* The credential VoiceService.__init__ reads for a provider
Credential(vs, provider) ==
    CASE provider = "claude" -> vs.claude_api_key
      [] provider = "gemini" -> vs.gemini_api_key
      [] provider = "openai" -> vs.openai_api_key

\* One client that selects a provider; every configuration of the three
\* language-model credentials, the speech-to-text credential configured
InitProviders ==
    /\ InitCommon
    /\ voice_service \in [groq_api_key : {"sk"}, claude_api_key : KeyVals,
                          gemini_api_key : KeyVals, openai_api_key : KeyVals]
    /\ client_frames = [c \in Conns |-> IF c = "c1" THEN ProviderFrames ELSE {}]
    /\ frames_left = MaxProviderFrames

\* The log earlier sessions of a user left: the entries of turns whose
\* transcripts were "hi", "bye", "" and so on, the last turn cut after its
\* user entry when n is odd
PastTranscripts == <<"hi", "bye", "">>

PastEntry(i) ==
    LET t == PastTranscripts[(((i - 1) \div 2) % 3) + 1] IN
    IF i % 2 = 1 THEN Entry("user", t) ELSE Entry("assistant", ClaudeText(t))

PastLog(n) == [i \in 1..n |-> PastEntry(i)]

HistoryFrames == {ContextFrame(CtxU1), AudioFrame("QTE=")}

\* One client of user u1, credentials configured, the log of u1 holding up to
\* MaxLogLen entries with its expiry set
InitHistory ==
    /\ voice_service = [groq_api_key |-> "sk", claude_api_key |-> "sk"]
    /\ client_frames = [c \in Conns |-> IF c = "c1" THEN HistoryFrames ELSE {}]
    /\ frames_left = MaxHistoryFrames
    /\ \E n \in 0..MaxLogLen :
          store = [k \in Keys |-> IF k = HistoryKey("u1") THEN PastLog(n) ELSE <<>>]
    /\ ttl = [k \in Keys |-> store[k] # <<>>]
    /\ redis_client = FALSE
    /\ active_connections = {}
    /\ pc = [c \in Conns |-> "accept"]
    /\ open = [c \in Conns |-> FALSE]
    /\ buffered = [c \in Conns |-> 0]
    /\ message = [c \in Conns |-> NoMessage]
    /\ user_context = [c \in Conns |-> None]
    /\ history_key = [c \in Conns |-> Unbound]
    /\ conversation_history = [c \in Conns |-> UnboundList]
    /\ transcript = [c \in Conns |-> Unbound]
    /\ response_text = [c \in Conns |-> Unbound]
    /\ audio = [c \in Conns |-> Unbound]
    /\ error = [c \in Conns |-> NoExc]
    /\ sent = [c \in Conns |-> <<>>]
    /\ calls = [c \in Conns |-> <<>>]

\* One client of user u1, credentials configured
InitLive ==
    /\ InitCommon
    /\ voice_service = [groq_api_key |-> "sk", claude_api_key |-> "sk"]
    /\ client_frames = [c \in Conns |-> IF c = "c1" THEN HistoryFrames ELSE {}]
    /\ frames_left = MaxLiveFrames

\* Two clients of the same user, credentials configured.  c1 is an established
\* session: it was accepted, sent its context event and got `ready` (the state
\* Accept, GetRedis, ReceiveText, LrangeHistory and SendReady lead to); c2 has
\* not connected yet.
InitPair ==
    /\ voice_service = [groq_api_key |-> "sk", claude_api_key |-> "sk"]
    /\ client_frames = [c \in Conns |-> PairFrames(c)]
    /\ frames_left = MaxPairFrames
    /\ redis_client = TRUE
    /\ active_connections = {"c1"}
    /\ store = [k \in Keys |-> <<>>]
    /\ ttl = [k \in Keys |-> FALSE]
    /\ pc = [c \in Conns |-> IF c = "c1" THEN "receive" ELSE "accept"]
    /\ open = [c \in Conns |-> c = "c1"]
    /\ buffered = [c \in Conns |-> 0]
    /\ message = [c \in Conns |->
                    IF c = "c1" THEN ContextFrame(CtxU1) ELSE NoMessage]
    /\ user_context = [c \in Conns |-> IF c = "c1" THEN CtxU1 ELSE None]
    /\ history_key = [c \in Conns |->
                        IF c = "c1" THEN HistoryKey("u1") ELSE Unbound]
    /\ conversation_history = [c \in Conns |->
                        IF c = "c1" THEN List(<<>>) ELSE UnboundList]
    /\ transcript = [c \in Conns |-> Unbound]
    /\ response_text = [c \in Conns |-> Unbound]
    /\ audio = [c \in Conns |-> Unbound]
    /\ error = [c \in Conns |-> NoExc]
    /\ sent = [c \in Conns |-> IF c = "c1" THEN <<ReadyEnv>> ELSE <<>>]
    /\ calls = [c \in Conns |->
                  IF c = "c1" THEN <<Call("lrange", HistoryKey("u1"), TRUE)>>
                  ELSE <<>>]

\* Two clients, credentials configured.  c1 is an established session of user
\* u1, as in InitPair; c2 has not connected yet.  Either can name user u2.
InitCross ==
    /\ voice_service = [groq_api_key |-> "sk", claude_api_key |-> "sk"]
    /\ client_frames = [c \in Conns |-> CrossFrames(c)]
    /\ frames_left = MaxCrossFrames
    /\ redis_client = TRUE
    /\ active_connections = {"c1"}
    /\ store = [k \in Keys |-> <<>>]
    /\ ttl = [k \in Keys |-> FALSE]
    /\ pc = [c \in Conns |-> IF c = "c1" THEN "receive" ELSE "accept"]
    /\ open = [c \in Conns |-> c = "c1"]
    /\ buffered = [c \in Conns |-> 0]
    /\ message = [c \in Conns |->
                    IF c = "c1" THEN ContextFrame(CtxU1) ELSE NoMessage]
    /\ user_context = [c \in Conns |-> IF c = "c1" THEN CtxU1 ELSE None]
    /\ history_key = [c \in Conns |->
                        IF c = "c1" THEN HistoryKey("u1") ELSE Unbound]
    /\ conversation_history = [c \in Conns |->
                        IF c = "c1" THEN List(<<>>) ELSE UnboundList]
    /\ transcript = [c \in Conns |-> Unbound]
    /\ response_text = [c \in Conns |-> Unbound]
    /\ audio = [c \in Conns |-> Unbound]
    /\ error = [c \in Conns |-> NoExc]
    /\ sent = [c \in Conns |-> IF c = "c1" THEN <<ReadyEnv>> ELSE <<>>]
    /\ calls = [c \in Conns |->
                  IF c = "c1" THEN <<Call("lrange", HistoryKey("u1"), TRUE)>>
                  ELSE <<>>]

---------------------------------------------------------------------------
(* Control flow of voice_stream *)

Goto(c, label) == pc' = [pc EXCEPT ![c] = label]

Alive(c) == pc[c] \notin {"accept", "returned", "raised"}

\* An exception leaves the `while True` loop: `except WebSocketDisconnect`
\* removes the registry entry and returns; `except Exception` prints and then
\* awaits the send of the "Internal server error" envelope.
Propagate(c, e) ==
    IF e.kind = "WebSocketDisconnect"
    THEN /\ active_connections' = active_connections \ {c}
         /\ Goto(c, "returned")
         /\ error' = [error EXCEPT ![c] = NoExc]
    ELSE /\ active_connections' = active_connections
         /\ Goto(c, "outer_error")
         /\ error' = [error EXCEPT ![c] = e]

\* A failure that is reported while the turn goes on with its next stage
CaughtAndResumed(c, e) ==
    /\ Goto(c, "synthesize")
    /\ error' = [error EXCEPT ![c] = e]
    /\ UNCHANGED active_connections

\* An exception inside the turn's try block: `except Exception as e`
Caught(c, e) ==
    /\ Goto(c, "send_error")
    /\ error' = [error EXCEPT ![c] = e]
    /\ UNCHANGED active_connections

\* No exception: the task goes on to its next await
Continue(c, label) ==
    /\ Goto(c, label)
    /\ UNCHANGED <<active_connections, error>>

Emit(c, env) == sent' = [sent EXCEPT ![c] = Append(@, env)]
Record(c, call) == calls' = [calls EXCEPT ![c] = Append(@, call)]

---------------------------------------------------------------------------
(* The clients and the Redis server *)

ClientSend(c) ==
    /\ Alive(c) /\ open[c] /\ frames_left > 0
    /\ buffered' = [buffered EXCEPT ![c] = @ + 1]
    /\ frames_left' = frames_left - 1
    /\ UNCHANGED <<voice_service, redis_client, active_connections, store, ttl,
                   pc, open, client_frames, message, user_context, history_key,
                   conversation_history, transcript, response_text, audio,
                   error, sent, calls>>

ClientDisconnect(c) ==
    /\ Alive(c) /\ open[c]
    /\ open' = [open EXCEPT ![c] = FALSE]
    /\ UNCHANGED <<voice_service, redis_client, active_connections, store, ttl,
                   pc, buffered, frames_left, client_frames, message,
                   user_context, history_key, conversation_history, transcript,
                   response_text, audio, error, sent, calls>>

\* The expiry of a key passes: Redis deletes the key
KeyExpires(k) ==
    /\ ttl[k] /\ store[k] # <<>>
    /\ store' = [store EXCEPT ![k] = <<>>]
    /\ ttl' = [ttl EXCEPT ![k] = FALSE]
    /\ UNCHANGED <<voice_service, redis_client, active_connections, pc, open,
                   buffered, frames_left, client_frames, message, user_context,
                   history_key, conversation_history, transcript, response_text,
                   audio, error, sent, calls>>

---------------------------------------------------------------------------
(* voice_stream: accept, receive, the context event *)

Accept(c) ==
    /\ pc[c] = "accept" /\ client_frames[c] # {}
    /\ active_connections' = active_connections \cup {c}
    /\ open' = [open EXCEPT ![c] = TRUE]
    /\ user_context' = [user_context EXCEPT ![c] = None]
    /\ Goto(c, "get_redis")
    /\ UNCHANGED <<voice_service, redis_client, store, ttl, buffered,
                   frames_left, client_frames, message, history_key,
                   conversation_history, transcript, response_text, audio,
                   error, sent, calls>>

GetRedis(c) ==
    /\ pc[c] = "get_redis"
    /\ redis_client' = TRUE
    /\ Goto(c, "receive")
    /\ UNCHANGED <<voice_service, active_connections, store, ttl, open,
                   buffered, frames_left, client_frames, message, user_context,
                   history_key, conversation_history, transcript, response_text,
                   audio, error, sent, calls>>

\* A context event that updates the fields it carries and keeps the others
MergedContext(old, data) ==
    IF old = None THEN data
    ELSE [k \in DOMAIN old \cup DOMAIN data |->
            IF k \in DOMAIN data THEN data[k] ELSE old[k]]

\* user_context = message.get("data", {}): the new value of user_context
StoredContext(old, data) == data

\* The code from json.loads to the next await, for the frame f
Dispatch(c, f) ==
    CASE f.json = "invalid" ->
            /\ Propagate(c, Exc("JSONDecodeError", "Expecting value"))
            /\ UNCHANGED <<user_context, history_key, conversation_history>>
      [] f.json = "nonobject" ->
            /\ Propagate(c, Exc("AttributeError", "no attribute get"))
            /\ UNCHANGED <<user_context, history_key, conversation_history>>
      [] IsObject(f) /\ MsgType(f) = "context" ->
            LET data == MsgData(f) IN
            IF data.t # "obj"
            THEN /\ user_context' = [user_context EXCEPT ![c] = data]
                 /\ Propagate(c, Exc("AttributeError", "no attribute get"))
                 /\ UNCHANGED <<history_key, conversation_history>>
            ELSE LET ctx == StoredContext(user_context[c], data.v) IN
                 /\ user_context' = [user_context EXCEPT ![c] = ctx]
                 /\ IF HasUserId(ctx)
                    THEN /\ history_key' = [history_key EXCEPT
                                               ![c] = HistoryKey(ctx["userId"])]
                         /\ UNCHANGED conversation_history
                         /\ Continue(c, "lrange")
                    ELSE /\ conversation_history' =
                              [conversation_history EXCEPT ![c] = List(<<>>)]
                         /\ UNCHANGED history_key
                         /\ Continue(c, "send_ready")
      [] IsObject(f) /\ MsgType(f) = "audio" ->
            /\ Continue(c, "send_start")
            /\ UNCHANGED <<user_context, history_key, conversation_history>>
      [] OTHER ->
            /\ Continue(c, "receive")
            /\ UNCHANGED <<user_context, history_key, conversation_history>>

\* A receive loop that runs beside the turn instead of awaiting it
AtReceiveOrBusy(c) == pc[c] \in {"receive", "llm"}

\* The task takes the next frame when it is suspended in receive_text
AtReceive(c) == pc[c] = "receive"

ReceiveText(c) ==
    /\ AtReceive(c)
    /\ \/ /\ buffered[c] > 0
          /\ \E f \in client_frames[c] :
                /\ message' = [message EXCEPT ![c] = f]
                /\ Dispatch(c, f)
          /\ buffered' = [buffered EXCEPT ![c] = @ - 1]
          /\ sent' = [sent EXCEPT ![c] = <<>>]
          /\ calls' = [calls EXCEPT ![c] = <<>>]
       \/ /\ buffered[c] = 0 /\ ~open[c]
          /\ Propagate(c, Exc("WebSocketDisconnect", "1000"))
          /\ UNCHANGED <<buffered, message, user_context, history_key,
                         conversation_history, sent, calls>>
    /\ UNCHANGED <<voice_service, redis_client, store, ttl, open, frames_left,
                   client_frames, transcript, response_text, audio>>

LrangeHistory(c) ==
    /\ pc[c] = "lrange"
    /\ \/ /\ conversation_history' = [conversation_history EXCEPT
                                         ![c] = List(Lrange(store[history_key[c]]))]
          /\ Record(c, Call("lrange", history_key[c], TRUE))
          /\ Continue(c, "send_ready")
       \/ /\ Record(c, Call("lrange", history_key[c], FALSE))
          /\ Propagate(c, Exc("RedisError", "Error connecting to Redis"))
          /\ UNCHANGED conversation_history
    /\ UNCHANGED <<voice_service, redis_client, store, ttl, open, buffered,
                   frames_left, client_frames, message, user_context,
                   history_key, transcript, response_text, audio, sent>>

\* await websocket.send_json(env) outside the turn's try block, then `next`
SendOutside(c, env, next) ==
    \/ /\ open[c]
       /\ Emit(c, env)
       /\ Continue(c, next)
    \/ /\ ~open[c]
       /\ \E e \in SendFailures : Propagate(c, e)
       /\ UNCHANGED sent

SendReady(c) ==
    /\ pc[c] = "send_ready"
    /\ SendOutside(c, ReadyEnv, "receive")
    /\ UNCHANGED <<voice_service, redis_client, store, ttl, open, buffered,
                   frames_left, client_frames, message, user_context,
                   history_key, conversation_history, transcript, response_text,
                   audio, calls>>

---------------------------------------------------------------------------
(* voice_stream: the audio event (one turn) *)

\* From the return of send_json(processing start) to the await of the Whisper
\* request: b64decode, then the credential check of transcribe_audio.
\* cs: the calls made so far.
BeginTranscribe(c, cs) ==
    LET r == B64Decode(MsgDataOrNone(message[c])) IN
    IF ~r.ok
    THEN /\ calls' = [calls EXCEPT ![c] = Append(cs, Call("b64decode", "", FALSE))]
         /\ Caught(c, Exc(r.kind, r.msg))
         /\ UNCHANGED audio
    ELSE /\ audio' = [audio EXCEPT ![c] = r.bytes]
         /\ IF voice_service.groq_api_key = ""
            THEN /\ calls' = [calls EXCEPT ![c] =
                        cs \o <<Call("b64decode", "", TRUE),
                                Call("transcribe", r.bytes, FALSE)>>]
                 /\ Caught(c, Exc("ValueError", "GROQ_API_KEY not configured"))
            ELSE /\ calls' = [calls EXCEPT ![c] =
                        Append(cs, Call("b64decode", "", TRUE))]
                 /\ Continue(c, "transcribe")

SendProcessingStart(c) ==
    /\ pc[c] = "send_start"
    /\ \/ /\ open[c]
          /\ Emit(c, ProcessingEnv("start"))
          /\ BeginTranscribe(c, calls[c])
       \/ /\ ~open[c]
          /\ \E e \in SendFailures : Propagate(c, e)
          /\ UNCHANGED <<sent, calls, audio>>
    /\ UNCHANGED <<voice_service, redis_client, store, ttl, open, buffered,
                   frames_left, client_frames, message, user_context,
                   history_key, conversation_history, transcript, response_text>>

\* A turn that ends at once when nothing was said
TranscribeAudioSkipsSilence(c) ==
    /\ pc[c] = "transcribe"
    /\ \/ /\ transcript' = [transcript EXCEPT ![c] = Whisper(audio[c])]
          /\ Record(c, Call("transcribe", audio[c], TRUE))
          /\ IF Whisper(audio[c]) = ""
             THEN Continue(c, "send_end")
             ELSE Continue(c, "send_transcript")
       \/ /\ Record(c, Call("transcribe", audio[c], FALSE))
          /\ Caught(c, Exc("Exception", "Failed to transcribe audio"))
          /\ UNCHANGED transcript
    /\ UNCHANGED <<voice_service, redis_client, store, ttl, open, buffered,
                   frames_left, client_frames, message, user_context,
                   history_key, conversation_history, response_text, audio, sent>>

TranscribeAudio(c) ==
    /\ pc[c] = "transcribe"
    /\ \/ /\ transcript' = [transcript EXCEPT ![c] = Whisper(audio[c])]
          /\ Record(c, Call("transcribe", audio[c], TRUE))
          /\ Continue(c, "send_transcript")
       \/ /\ Record(c, Call("transcribe", audio[c], FALSE))
          /\ Caught(c, Exc("Exception", "Failed to transcribe audio"))
          /\ UNCHANGED transcript
    /\ UNCHANGED <<voice_service, redis_client, store, ttl, open, buffered,
                   frames_left, client_frames, message, user_context,
                   history_key, conversation_history, response_text, audio, sent>>

\* user_context.get("llmProvider", "claude") if user_context else "claude"
LlmProvider(ctx) ==
    IF Truthy(ctx) THEN Get(ctx, "llmProvider", DefaultProvider)
    ELSE DefaultProvider

\* From `llm_provider = ...` to the next await: get_llm_response picks the
\* provider; gemini and openai answer without awaiting anything, claude checks
\* its credential and then awaits the HTTP request.  cs: the calls made so far.
BeginLlm(c, cs) ==
    LET provider == LlmProvider(user_context[c]) IN
    CASE provider = "claude" ->
            IF voice_service.claude_api_key = ""
            THEN /\ calls' = [calls EXCEPT ![c] =
                        Append(cs, Call("llm", provider, FALSE))]
                 /\ Caught(c, Exc("ValueError", "CLAUDE_API_KEY not configured"))
                 /\ UNCHANGED response_text
            ELSE /\ calls' = [calls EXCEPT ![c] = cs]
                 /\ Continue(c, "llm")
                 /\ UNCHANGED response_text
      [] provider = "gemini" ->
            /\ response_text' = [response_text EXCEPT ![c] = GeminiText]
            /\ calls' = [calls EXCEPT ![c] = Append(cs, Call("llm", provider, TRUE))]
            /\ Continue(c, "send_response")
      [] provider = "openai" ->
            /\ response_text' = [response_text EXCEPT ![c] = OpenAIText]
            /\ calls' = [calls EXCEPT ![c] = Append(cs, Call("llm", provider, TRUE))]
            /\ Continue(c, "send_response")
      [] OTHER ->
            /\ calls' = [calls EXCEPT ![c] = Append(cs, Call("llm", provider, FALSE))]
            /\ Caught(c, Exc("ValueError", "Unknown LLM provider: " \o provider))
            /\ UNCHANGED response_text

\* A transcript kept in one place for all connections
SharedTranscript(c) ==
    IF \E d \in Conns \ {c} : transcript[d] # Unbound
    THEN transcript[CHOOSE d \in Conns \ {c} : transcript[d] # Unbound]
    ELSE transcript[c]

\* The local `transcript` of this connection's task
TurnTranscript(c) == transcript[c]

SendTranscript(c) ==
    /\ pc[c] = "send_transcript"
    /\ \/ /\ open[c]
          /\ Emit(c, TranscriptEnv(TurnTranscript(c)))
          /\ IF ContextHasUser(user_context[c])
             THEN /\ history_key' = [history_key EXCEPT
                        ![c] = HistoryKey(user_context[c]["userId"])]
                  /\ Continue(c, "rpush_user")
                  /\ UNCHANGED <<calls, response_text>>
             ELSE /\ BeginLlm(c, calls[c])
                  /\ UNCHANGED history_key
       \/ /\ ~open[c]
          /\ \E e \in SendFailures : Caught(c, e)
          /\ UNCHANGED <<sent, calls, response_text, history_key>>
    /\ UNCHANGED <<voice_service, redis_client, store, ttl, open, buffered,
                   frames_left, client_frames, message, user_context,
                   conversation_history, transcript, audio>>

RpushUser(c) ==
    /\ pc[c] = "rpush_user"
    /\ \/ /\ store' = Rpush(store, history_key[c], Entry("user", transcript[c]))
          /\ Record(c, Call("rpush", history_key[c], TRUE))
          /\ Continue(c, "expire_user")
       \/ /\ Record(c, Call("rpush", history_key[c], FALSE))
          /\ Caught(c, Exc("RedisError", "Error connecting to Redis"))
          /\ UNCHANGED store
    /\ UNCHANGED <<voice_service, redis_client, ttl, open, buffered, frames_left,
                   client_frames, message, user_context, history_key,
                   conversation_history, transcript, response_text, audio, sent>>

ExpireUser(c) ==
    /\ pc[c] = "expire_user"
    /\ \/ /\ ttl' = ExpireKey(ttl, store, history_key[c])
          /\ BeginLlm(c, Append(calls[c], Call("expire", history_key[c], TRUE)))
       \/ /\ Record(c, Call("expire", history_key[c], FALSE))
          /\ Caught(c, Exc("RedisError", "Error connecting to Redis"))
          /\ UNCHANGED <<ttl, response_text>>
    /\ UNCHANGED <<voice_service, redis_client, store, open, buffered,
                   frames_left, client_frames, message, user_context,
                   history_key, conversation_history, transcript, audio, sent>>

\* A request whose failure is raised to the caller, as transcribe_audio does
GetLlmResponseRaising(c) ==
    /\ pc[c] = "llm"
    /\ \/ /\ response_text' = [response_text EXCEPT
                                  ![c] = ClaudeText(transcript[c])]
          /\ Record(c, Call("llm", "claude", TRUE))
          /\ Continue(c, "send_response")
       \/ /\ Record(c, Call("llm", "claude", FALSE))
          /\ Caught(c, Exc("Exception", "Failed to get response"))
          /\ UNCHANGED response_text
    /\ UNCHANGED <<voice_service, redis_client, store, ttl, open, buffered,
                   frames_left, client_frames, message, user_context,
                   history_key, conversation_history, transcript, audio, sent>>

\* The HTTP request of _get_claude_response: its text, or, on any error, the
\* fixed fallback reply
GetLlmResponse(c) ==
    /\ pc[c] = "llm"
    /\ \E text \in {ClaudeText(transcript[c]), ClaudeFallback} :
          response_text' = [response_text EXCEPT ![c] = text]
    /\ Record(c, Call("llm", "claude", TRUE))
    /\ Continue(c, "send_response")
    /\ UNCHANGED <<voice_service, redis_client, store, ttl, open, buffered,
                   frames_left, client_frames, message, user_context,
                   history_key, conversation_history, transcript, audio, sent>>

SendResponse(c) ==
    /\ pc[c] = "send_response"
    /\ \/ /\ open[c]
          /\ Emit(c, ResponseEnv(response_text[c]))
          /\ IF ContextHasUser(user_context[c])
             THEN Continue(c, "rpush_assistant")
             ELSE Continue(c, "synthesize")
       \/ /\ ~open[c]
          /\ \E e \in SendFailures : Caught(c, e)
          /\ UNCHANGED sent
    /\ UNCHANGED <<voice_service, redis_client, store, ttl, open, buffered,
                   frames_left, client_frames, message, user_context,
                   history_key, conversation_history, transcript, response_text,
                   audio, calls>>

\* The cache calls that follow the rpush of the assistant entry: none
AfterAssistantRpush(c) == Continue(c, "synthesize")

RpushAssistant(c) ==
    /\ pc[c] = "rpush_assistant"
    /\ \/ /\ store' = Rpush(store, history_key[c],
                             Entry("assistant", response_text[c]))
          /\ Record(c, Call("rpush", history_key[c], TRUE))
          /\ AfterAssistantRpush(c)
       \/ /\ Record(c, Call("rpush", history_key[c], FALSE))
          /\ Caught(c, Exc("RedisError", "Error connecting to Redis"))
          /\ UNCHANGED store
    /\ UNCHANGED <<voice_service, redis_client, ttl, open, buffered, frames_left,
                   client_frames, message, user_context, history_key,
                   conversation_history, transcript, response_text, audio, sent>>

\* user_context.get("voicePreferences", {}) if user_context else {}
VoicePrefs(ctx) ==
    IF Truthy(ctx) THEN Get(ctx, "voicePreferences", EmptyDict) ELSE EmptyDict

VoiceName(ctx) == Get(VoicePrefs(ctx), "name", DefaultVoice)

\* The arguments synthesize_speech is called with
VoiceParams(ctx) ==
    [voice_name |-> VoiceName(ctx),
     pitch |-> Get(VoicePrefs(ctx), "pitch", DefaultPitch),
     rate |-> Get(VoicePrefs(ctx), "rate", DefaultRate),
     volume |-> Get(VoicePrefs(ctx), "volume", DefaultVolume)]

SynthesizeSpeech(c) ==
    /\ pc[c] = "synthesize"
    /\ LET voice_name == VoiceName(user_context[c]) IN
       \/ /\ audio' = [audio EXCEPT ![c] = EdgeTts(response_text[c], voice_name)]
          /\ Record(c, Call("synthesize", VoiceParams(user_context[c]), TRUE))
          /\ Continue(c, "send_audio")
       \/ /\ Record(c, Call("synthesize", VoiceParams(user_context[c]), FALSE))
          /\ Caught(c, Exc("Exception", "Failed to synthesize speech"))
          /\ UNCHANGED audio
    /\ UNCHANGED <<voice_service, redis_client, store, ttl, open, buffered,
                   frames_left, client_frames, message, user_context,
                   history_key, conversation_history, transcript, response_text,
                   sent>>

SendAudio(c) ==
    /\ pc[c] = "send_audio"
    /\ \/ /\ open[c]
          /\ Emit(c, AudioEnv(B64Encode(audio[c])))
          /\ Continue(c, "send_end")
       \/ /\ ~open[c]
          /\ \E e \in SendFailures : Caught(c, e)
          /\ UNCHANGED sent
    /\ UNCHANGED <<voice_service, redis_client, store, ttl, open, buffered,
                   frames_left, client_frames, message, user_context,
                   history_key, conversation_history, transcript, response_text,
                   audio, calls>>

\* The except block is left (normally or by an exception): `finally` runs
ToFinallySkipped(c) == Goto(c, "receive")

ToFinally(c) == Goto(c, "send_end")

\* `except Exception as e`: send the error envelope; then the finally block.
\* A send that raises here leaves the except block with that exception.
SendError(c) ==
    /\ pc[c] = "send_error"
    /\ \/ /\ open[c]
          /\ Emit(c, ErrorEnv(error[c].msg))
          /\ error' = [error EXCEPT ![c] = NoExc]
       \/ /\ ~open[c]
          /\ \E e \in SendFailures : error' = [error EXCEPT ![c] = e]
          /\ UNCHANGED sent
    /\ ToFinally(c)
    /\ UNCHANGED <<voice_service, redis_client, active_connections, store, ttl,
                   open, buffered, frames_left, client_frames, message,
                   user_context, history_key, conversation_history, transcript,
                   response_text, audio, calls>>

\* `finally`: send processing end; then the pending exception, if any, leaves
\* the loop, and otherwise the loop goes back to receive_text.
SendProcessingEnd(c) ==
    /\ pc[c] = "send_end"
    /\ \/ /\ open[c]
          /\ Emit(c, ProcessingEnv("end"))
          /\ IF error[c] = NoExc
             THEN Continue(c, "receive")
             ELSE Propagate(c, error[c])
       \/ /\ ~open[c]
          /\ \E e \in SendFailures : Propagate(c, e)
          /\ UNCHANGED sent
    /\ UNCHANGED <<voice_service, redis_client, store, ttl, open, buffered,
                   frames_left, client_frames, message, user_context,
                   history_key, conversation_history, transcript, response_text,
                   audio, calls>>

\* `except Exception`: send "Internal server error", then remove the registry
\* entry.  A send that raises ends the task before the entry is removed.
SendInternalError(c) ==
    /\ pc[c] = "outer_error"
    /\ \/ /\ open[c]
          /\ Emit(c, InternalErrorEnv)
          /\ active_connections' = active_connections \ {c}
          /\ error' = [error EXCEPT ![c] = NoExc]
          /\ Goto(c, "returned")
       \/ /\ ~open[c]
          /\ \E e \in SendFailures : error' = [error EXCEPT ![c] = e]
          /\ Goto(c, "raised")
          /\ UNCHANGED <<sent, active_connections>>
    /\ UNCHANGED <<voice_service, redis_client, store, ttl, open, buffered,
                   frames_left, client_frames, message, user_context,
                   history_key, conversation_history, transcript, response_text,
                   audio, calls>>

---------------------------------------------------------------------------
(* Specifications *)

Next ==
    \/ \E c \in Conns : Accept(c)
    \/ \E c \in Conns : GetRedis(c)
    \/ \E c \in Conns : ClientSend(c)
    \/ \E c \in Conns : ClientDisconnect(c)
    \/ \E k \in Keys : KeyExpires(k)
    \/ \E c \in Conns : ReceiveText(c)
    \/ \E c \in Conns : LrangeHistory(c)
    \/ \E c \in Conns : SendReady(c)
    \/ \E c \in Conns : SendProcessingStart(c)
    \/ \E c \in Conns : TranscribeAudio(c)
    \/ \E c \in Conns : SendTranscript(c)
    \/ \E c \in Conns : RpushUser(c)
    \/ \E c \in Conns : ExpireUser(c)
    \/ \E c \in Conns : GetLlmResponse(c)
    \/ \E c \in Conns : SendResponse(c)
    \/ \E c \in Conns : RpushAssistant(c)
    \/ \E c \in Conns : SynthesizeSpeech(c)
    \/ \E c \in Conns : SendAudio(c)
    \/ \E c \in Conns : SendError(c)
    \/ \E c \in Conns : SendProcessingEnd(c)
    \/ \E c \in Conns : SendInternalError(c)

Spec == Init /\ [][Next]_vars

PairSpec == InitPair /\ [][Next]_vars

ProviderSpec == InitProviders /\ [][Next]_vars

HistorySpec == InitHistory /\ [][Next]_vars

\* The steps of a task that are certain to be taken once the task waits for
\* them.  The event loop resumes a task when what it awaits completes: a send
\* on the transport completes or raises; the requests to Whisper and to Claude
\* are made through httpx.AsyncClient(timeout=30.0) and (timeout=60.0) and end
\* with the answer or with a timeout error.  The Redis client is created by
\* redis.from_url without socket_timeout and communicate.save is awaited
\* without a timeout, and no asyncio.wait_for surrounds any call: nothing
\* ends the wait for lrange, rpush, expire or the synthesis if the
\* collaborator does not answer.
BoundedWaits ==
    \A c \in Conns :
        /\ WF_vars(SendReady(c))
        /\ WF_vars(SendProcessingStart(c))
        /\ WF_vars(TranscribeAudio(c))
        /\ WF_vars(SendTranscript(c))
        /\ WF_vars(GetLlmResponse(c))
        /\ WF_vars(SendResponse(c))
        /\ WF_vars(SendAudio(c))
        /\ WF_vars(SendError(c))
        /\ WF_vars(SendProcessingEnd(c))
        /\ WF_vars(SendInternalError(c))

CrossSpec == InitCross /\ [][Next]_vars

LiveSpec == InitLive /\ [][Next]_vars /\ BoundedWaits

---------------------------------------------------------------------------
(* Vocabulary of the properties *)

HandlingAudio(c) == IsObject(message[c]) /\ MsgType(message[c]) = "audio"

HandlingContext(c) ==
    /\ IsObject(message[c]) /\ MsgType(message[c]) = "context"
    /\ MsgData(message[c]).t = "obj"

Malformed(f) ==
    \/ f.json \in {"invalid", "nonobject"}
    \/ IsObject(f) /\ MsgType(f) = "context" /\ MsgData(f).t # "obj"

LeftLoop(c) == pc[c] \in {"outer_error", "returned", "raised"}

IsStart(e) == e = ProcessingEnv("start")
IsEnd(e) == e = ProcessingEnv("end")
TurnEnvelopeTypes == {"transcript", "response", "audio", "error"}

Last(s) == s[Len(s)]
Framed(s) == Len(s) >= 2 /\ IsStart(s[1]) /\ IsEnd(Last(s))
Positions(s, type) == {i \in 1..Len(s) : s[i].type = type}
TypesOf(s) == [i \in 1..Len(s) |-> s[i].type]
OpsOf(cs) == [i \in 1..Len(cs) |-> cs[i].op]

CacheOps == {"lrange", "rpush", "expire"}
StageFailed(c) == \E i \in 1..Len(calls[c]) : ~calls[c][i].ok
CacheFailed(c) ==
    \E i \in 1..Len(calls[c]) : calls[c][i].op \in CacheOps /\ ~calls[c][i].ok

---------------------------------------------------------------------------
(* C1: the envelopes of a turn are framed.  While an audio event is being   *)
(* handled the envelopes sent for it are a prefix of processing start,      *)
(* then transcript/response/audio/error envelopes, then processing end:     *)
(* one start, first; at most one end, last.  When the task is back in       *)
(* receive_text the frame is complete, whichever stage failed; the end is   *)
(* missing only from a turn that the closing of the transport cut short.    *)

C1_Framing ==
    \A c \in Conns :
        HandlingAudio(c) =>
            LET s == sent[c] IN
            /\ s # <<>> => IsStart(s[1])
            /\ \A i \in 2..Len(s) : ~IsStart(s[i])
            /\ \A i \in 1..(Len(s) - 1) : ~IsEnd(s[i])
            /\ \A i \in 2..(Len(s) - 1) : s[i].type \in TurnEnvelopeTypes
            /\ \A i \in 2..Len(s) : IsEnd(s[i]) \/ s[i].type \in TurnEnvelopeTypes
            /\ pc[c] = "receive" => Framed(s)
            /\ (LeftLoop(c) /\ ~Framed(s)) => ~open[c]

\* a turn whose transcription succeeded and whose language-model stage
\* failed has ended: start, transcript, error, end
C1_Witness ==
    \E c \in Conns :
        /\ HandlingAudio(c) /\ pc[c] = "receive"
        /\ TypesOf(sent[c]) = <<"processing", "transcript", "error", "processing">>

---------------------------------------------------------------------------
(* C2: a stage that fails ends the turn and nothing else.  The failed call  *)
(* is the last call of the turn; the task goes only through the error      *)
(* envelope and processing end; at most one error envelope is sent and      *)
(* after it only processing end; with the transport open the turn ends with *)
(* exactly one error envelope followed by processing end, the task is back  *)
(* in receive_text and can take the next frame.                             *)

C2_StageFailureEndsTurnOnly ==
    \A c \in Conns :
        (HandlingAudio(c) /\ StageFailed(c)) =>
            LET s == sent[c]
                cs == calls[c]
                errs == Positions(s, "error")
            IN
            /\ \A i \in 1..Len(cs) : ~cs[i].ok <=> i = Len(cs)
            /\ pc[c] \in {"send_error", "send_end", "receive",
                          "outer_error", "returned", "raised"}
            /\ Cardinality(errs) <= 1
            /\ \A i \in errs : \A j \in (i + 1)..Len(s) : IsEnd(s[j])
            /\ \A i \in errs : s[i] = ErrorEnv(s[i].message)
            /\ (pc[c] = "send_end" /\ open[c]) => Cardinality(errs) = 1
            /\ pc[c] = "receive" =>
                    /\ Cardinality(errs) = 1
                    /\ Framed(s) /\ s[Len(s) - 1].type = "error"
                    /\ c \in active_connections
                    /\ buffered[c] > 0 => ENABLED ReceiveText(c)
            /\ LeftLoop(c) => ~open[c]

\* the synthesis of a turn failed after transcript and response were sent,
\* the turn has ended and the next frame is waiting
C2_Witness ==
    \E c \in Conns :
        /\ HandlingAudio(c) /\ StageFailed(c)
        /\ pc[c] = "receive" /\ open[c] /\ buffered[c] > 0
        /\ Last(calls[c]).op = "synthesize"
        /\ TypesOf(sent[c]) =
              <<"processing", "transcript", "response", "error", "processing">>

---------------------------------------------------------------------------
(* C3: a malformed frame (invalid JSON, JSON that is no object, a context   *)
(* event whose data is no object) does not make voice_stream leave its      *)
(* receive loop while the transport is open.                                *)

C3_MalformedFrameKeepsSession ==
    \A c \in Conns :
        (Malformed(message[c]) /\ open[c]) => ~LeftLoop(c)

---------------------------------------------------------------------------
(* C4: a failure of the history cache is not visible to the client and      *)
(* stops nothing: after a cache call failed, no error envelope is sent, the *)
(* task is not in an exception handler and has not left its loop.           *)

C4_CacheFailureSwallowed ==
    \A c \in Conns :
        (CacheFailed(c) /\ open[c]) =>
            /\ Positions(sent[c], "error") = {}
            /\ pc[c] # "send_error"
            /\ ~LeftLoop(c)

---------------------------------------------------------------------------
(* C5: the keys of active_connections are exactly the connections whose     *)
(* handler has accepted and has not terminated.                             *)

C5_RegistryExact ==
    active_connections = {c \in Conns : Alive(c)}

---------------------------------------------------------------------------
(* C6: every append to a history log is followed at once by the reset of    *)
(* that log's expiry: a successful rpush is the call before an expire of    *)
(* the same key, or the task is about to make that expire call.             *)

C6_EveryAppendRefreshesExpiry ==
    \A c \in Conns :
        \A i \in 1..Len(calls[c]) :
            (calls[c][i].op = "rpush" /\ calls[c][i].ok) =>
                IF i < Len(calls[c])
                THEN /\ calls[c][i + 1].op = "expire"
                     /\ calls[c][i + 1].arg = calls[c][i].arg
                ELSE pc[c] = "expire_user"

---------------------------------------------------------------------------
(* C7: one turn in flight per connection.  While a turn is open (processing *)
(* start sent, processing end not yet) the task is not in receive_text, no  *)
(* frame of the connection is consumed, and the only envelopes added are    *)
(* transcript, response, audio, error and processing end of that same turn, *)
(* however many frames the client has sent ahead.                           *)

TurnOpen(c) ==
    /\ sent[c] # <<>> /\ IsStart(sent[c][1]) /\ ~IsEnd(Last(sent[c]))

C7_OneTurnInFlight ==
    /\ [](\A c \in Conns : TurnOpen(c) => pc[c] # "receive")
    /\ [][\A c \in Conns :
            TurnOpen(c) =>
                /\ message'[c] = message[c]
                /\ buffered'[c] >= buffered[c]
                /\ \/ sent'[c] = sent[c]
                   \/ /\ Len(sent'[c]) = Len(sent[c]) + 1
                      /\ SubSeq(sent'[c], 1, Len(sent[c])) = sent[c]
                      /\ \/ IsEnd(Last(sent'[c]))
                         \/ Last(sent'[c]).type \in TurnEnvelopeTypes]_vars

\* a turn is open while two more frames of the client wait to be received
C7_Witness ==
    \E c \in Conns :
        /\ TurnOpen(c) /\ pc[c] = "llm" /\ buffered[c] >= 2

---------------------------------------------------------------------------
(* C8: two connections of the same user do not mix.  The transcript sent on *)
(* a connection is the transcription of that connection's own audio, the    *)
(* response is the reply to that transcript (or the fixed fallback) and the *)
(* audio is the synthesis of that response; a connection's context changes  *)
(* only when that connection receives a context event, and to that event's  *)
(* data; a turn is never blocked by the other connection and, when the task *)
(* is back in receive_text, it was closed by processing end.                *)

OwnTranscript(c) == Whisper(B64Decode(MsgDataOrNone(message[c])).bytes)

TurnLabels ==
    {"send_start", "transcribe", "send_transcript", "rpush_user",
     "expire_user", "llm", "send_response", "rpush_assistant", "synthesize",
     "send_audio", "send_error", "send_end"}

TurnStep(c) ==
    \/ SendProcessingStart(c) \/ TranscribeAudio(c) \/ SendTranscript(c)
    \/ RpushUser(c) \/ ExpireUser(c) \/ GetLlmResponse(c) \/ SendResponse(c)
    \/ RpushAssistant(c) \/ SynthesizeSpeech(c) \/ SendAudio(c)
    \/ SendError(c) \/ SendProcessingEnd(c)

C8_OwnEnvelopes(c) ==
    LET s == sent[c] IN
    \A i \in 1..Len(s) :
        /\ s[i].type = "transcript" => s[i] = TranscriptEnv(OwnTranscript(c))
        /\ s[i].type = "response" =>
              /\ s[i - 1].type = "transcript"
              /\ s[i] \in {ResponseEnv(ClaudeText(OwnTranscript(c))),
                           ResponseEnv(ClaudeFallback)}
        /\ s[i].type = "audio" =>
              /\ s[i - 1].type = "response"
              /\ s[i] = AudioEnv(B64Encode(EdgeTts(s[i - 1].text,
                                                   VoiceName(user_context[c]))))

C8_Isolation ==
    /\ [](\A c \in Conns :
            /\ HandlingAudio(c) => C8_OwnEnvelopes(c)
            /\ (HandlingAudio(c) /\ pc[c] = "receive") => Framed(sent[c])
            /\ pc[c] \in TurnLabels => ENABLED TurnStep(c))
    /\ [][\A c \in Conns :
            user_context'[c] # user_context[c] =>
                /\ pc[c] = "receive"
                /\ HandlingContext(c)'
                /\ user_context'[c] = MsgData(message'[c]).v]_vars

\* both connections carry user u1 and both turns are in flight, each with its
\* own transcript sent
C8_Witness ==
    /\ \A c \in Conns : user_context[c] = CtxU1 /\ TurnOpen(c)
    /\ pc["c1"] = "llm" /\ pc["c2"] = "synthesize"
    /\ sent["c1"][2] = TranscriptEnv("hi")
    /\ sent["c2"][2] = TranscriptEnv("bye")

---------------------------------------------------------------------------
(* C9: without a userId (no context yet, a context without userId or with   *)
(* an empty one) the handling of a frame makes no call to the history       *)
(* cache: no lrange for a context event, no rpush and no expire for an      *)
(* audio event; the history window is empty; and a turn in which no stage   *)
(* fails calls transcribe, complete and synthesize and sends transcript,    *)
(* response and audio.                                                      *)

NoUserId(ctx) ==
    \/ ctx = None
    \/ "userId" \notin DOMAIN ctx
    \/ ctx["userId"] = ""

C9_NoUserNoCache ==
    \A c \in Conns :
        NoUserId(user_context[c]) =>
            /\ \A i \in 1..Len(calls[c]) : calls[c][i].op \notin CacheOps
            /\ pc[c] \notin {"lrange", "rpush_user", "expire_user",
                             "rpush_assistant"}
            /\ (HandlingContext(c) /\ pc[c] \in {"send_ready", "receive"}) =>
                    conversation_history[c] = List(<<>>)
            /\ (HandlingAudio(c) /\ pc[c] = "receive" /\ ~StageFailed(c)) =>
                    /\ OpsOf(calls[c]) =
                          <<"b64decode", "transcribe", "llm", "synthesize">>
                    /\ TypesOf(sent[c]) =
                          <<"processing", "transcript", "response", "audio",
                            "processing">>

\* a user's log exists, the context was replaced by one with an empty userId
\* and a whole turn has run since
C9_Witness ==
    \E c \in Conns :
        /\ user_context[c] = CtxAnon
        /\ HandlingAudio(c) /\ pc[c] = "receive" /\ ~StageFailed(c)
        /\ store[HistoryKey("u1")] # <<>>

---------------------------------------------------------------------------
(* C10: every context event (its data an object) is answered by exactly one *)
(* ready envelope and never ends the session while the transport is open.   *)

C10_ContextAlwaysReady ==
    \A c \in Conns :
        (HandlingContext(c) /\ open[c]) =>
            /\ ~LeftLoop(c)
            /\ pc[c] \in {"lrange", "send_ready", "receive"}
            /\ pc[c] = "receive" => sent[c] = <<ReadyEnv>>

---------------------------------------------------------------------------
(* C11: a missing credential of the selected provider fails the turn at the *)
(* language-model stage.  For each of claude, gemini and openai: when the   *)
(* session selected that provider and its credential is absent, a turn that *)
(* got as far as the language-model stage sends no response envelope; once  *)
(* the turn is over it has sent exactly one error envelope and then         *)
(* processing end, and the task is back in receive_text, still registered.  *)

SelectedProvider(c) == LlmProvider(user_context[c])

PastTranscriptStage(c) ==
    /\ Positions(sent[c], "transcript") # {}
    /\ ~CacheFailed(c)
    /\ pc[c] \notin {"rpush_user", "expire_user"}

C11_MissingCredentialFailsTurn ==
    \A c \in Conns :
        ( /\ HandlingAudio(c) /\ open[c] /\ PastTranscriptStage(c)
          /\ SelectedProvider(c) \in Providers
          /\ Credential(voice_service, SelectedProvider(c)) = "" ) =>
            /\ Positions(sent[c], "response") = {}
            /\ pc[c] \in {"send_error", "send_end", "receive"}
            /\ pc[c] = "receive" =>
                    /\ Cardinality(Positions(sent[c], "error")) = 1
                    /\ Framed(sent[c]) /\ sent[c][Len(sent[c]) - 1].type = "error"
                    /\ c \in active_connections

---------------------------------------------------------------------------
(* C12: the language-model stage always yields a reply.  As claimed: every  *)
(* turn that got as far as the language-model stage, whatever provider the  *)
(* session names and whatever the provider call does, is waiting for the    *)
(* reply or has sent a response envelope.                                   *)

AtLlmStage(c) == pc[c] \in {"llm", "send_response"}

C12_AlwaysAResponse ==
    \A c \in Conns :
        (HandlingAudio(c) /\ open[c] /\ PastTranscriptStage(c)) =>
            \/ AtLlmStage(c)
            \/ Cardinality(Positions(sent[c], "response")) = 1

(* C12 as amended: the same for a provider get_llm_response knows whose     *)
(* credential is configured.  No error envelope precedes the response; the  *)
(* response is the third envelope of the turn and carries the provider's    *)
(* text or, for claude, the fixed fallback string.                          *)

Replies(c) ==
    CASE SelectedProvider(c) = "claude" ->
            {ClaudeText(transcript[c]), ClaudeFallback}
      [] SelectedProvider(c) = "gemini" -> {GeminiText}
      [] SelectedProvider(c) = "openai" -> {OpenAIText}

C12_ConfiguredProviderAlwaysReplies ==
    \A c \in Conns :
        ( /\ HandlingAudio(c) /\ open[c] /\ PastTranscriptStage(c)
          /\ SelectedProvider(c) \in Providers
          /\ Credential(voice_service, SelectedProvider(c)) # "" ) =>
            IF AtLlmStage(c)
            THEN TypesOf(sent[c]) = <<"processing", "transcript">>
            ELSE /\ Positions(sent[c], "response") = {3}
                 /\ sent[c][3].text \in Replies(c)
                 /\ sent[c][3] = ResponseEnv(sent[c][3].text)

\* the request to claude failed, the fallback string was sent as the response
\* and the turn went on to its end
C12_Witness ==
    \E c \in Conns :
        /\ HandlingAudio(c) /\ pc[c] = "receive" /\ ~StageFailed(c)
        /\ SelectedProvider(c) = "claude"
        /\ sent[c][3] = ResponseEnv(ClaudeFallback)
        /\ TypesOf(sent[c]) =
              <<"processing", "transcript", "response", "audio", "processing">>

---------------------------------------------------------------------------
(* C13: a frame that is an object whose type is neither context nor audio   *)
(* (or is missing) is a no-op.  The step that receives it changes neither   *)
(* the session context, nor the history window, nor any log or expiry, nor  *)
(* the registry, and leaves the task in receive_text; while it is the last  *)
(* frame received no envelope was sent and no collaborator was called for   *)
(* it, the connection is registered and the next frame can be received.     *)

Ignored(f) ==
    /\ f.json = "object"
    /\ "type" \in DOMAIN f.body => f.body["type"] \notin {"context", "audio"}

Receives(c) == buffered'[c] < buffered[c]

C13_UnknownTypeIsNoOp ==
    /\ [](\A c \in Conns :
            Ignored(message[c]) =>
                /\ sent[c] = <<>> /\ calls[c] = <<>>
                /\ pc[c] \in {"receive", "returned"}
                /\ pc[c] = "returned" => ~open[c]
                /\ pc[c] = "receive" =>
                        /\ c \in active_connections
                        /\ buffered[c] > 0 => ENABLED ReceiveText(c))
    /\ [][\A c \in Conns :
            (Receives(c) /\ Ignored(message'[c])) =>
                /\ pc'[c] = "receive" /\ sent'[c] = <<>>
                /\ user_context' = user_context
                /\ history_key' = history_key
                /\ conversation_history' = conversation_history
                /\ store' = store /\ ttl' = ttl
                /\ active_connections' = active_connections
                /\ open' = open /\ error' = error]_vars

\* a frame without type was received in a session of user u1 whose log is
\* not empty, and the next frame is waiting
C13_Witness ==
    \E c \in Conns :
        /\ message[c] = Frame(EmptyDict) /\ pc[c] = "receive"
        /\ user_context[c] = CtxU1 /\ store[HistoryKey("u1")] # <<>>
        /\ buffered[c] > 0

---------------------------------------------------------------------------
(* C14: a context event replaces the session context.  The context changes  *)
(* only in the step that receives a context event and becomes that event's  *)
(* data ({} when the event has none), whatever it was before; hence it is   *)
(* always the data of the most recent context event.  Every turn uses that  *)
(* context alone: the provider asked is its llmProvider or claude, the      *)
(* voice parameters are its voicePreferences with the default for each      *)
(* missing field, the log written is the one of its userId, and without a   *)
(* userId in it no cache call is made.                                      *)

IsContextEvent(f) ==
    /\ f.json = "object" /\ "type" \in DOMAIN f.body
    /\ f.body["type"] = "context"

EventData(f) ==
    IF "data" \in DOMAIN f.body THEN f.body["data"] ELSE [t |-> "obj", v |-> EmptyDict]

Field(d, k, default) ==
    IF d # None /\ k \in DOMAIN d THEN d[k] ELSE default

ExpectedVoice(ctx) ==
    LET prefs == Field(ctx, "voicePreferences", EmptyDict) IN
    [voice_name |-> Field(prefs, "name", "en-US-AriaNeural"),
     pitch |-> Field(prefs, "pitch", 10),
     rate |-> Field(prefs, "rate", 10),
     volume |-> Field(prefs, "volume", 10)]

C14_TurnUsesContext(c) ==
    LET ctx == user_context[c]
        uid == Field(ctx, "userId", "")
    IN
    \A i \in 1..Len(calls[c]) :
        LET call == calls[c][i] IN
        /\ call.op = "llm" => call.arg = Field(ctx, "llmProvider", "claude")
        /\ call.op = "synthesize" => call.arg = ExpectedVoice(ctx)
        /\ call.op \in {"rpush", "expire"} =>
                uid # "" /\ call.arg = "conversation:" \o uid

C14_ContextOverwritten ==
    /\ [](\A c \in Conns : HandlingAudio(c) => C14_TurnUsesContext(c))
    /\ [][\A c \in Conns :
            /\ user_context'[c] # user_context[c] =>
                    Receives(c) /\ IsContextEvent(message'[c])
            /\ ( /\ Receives(c) /\ IsContextEvent(message'[c])
                 /\ EventData(message'[c]).t = "obj" ) =>
                    user_context'[c] = EventData(message'[c]).v]_vars

\* the session was of user u2 with provider gemini and a voice of its own and
\* wrote to that user's log; after a context event naming only user u1 a whole
\* turn has run with claude and the default voice
C14_Witness ==
    \E c \in Conns :
        /\ user_context[c] = CtxU1
        /\ HandlingAudio(c) /\ pc[c] = "receive" /\ ~StageFailed(c)
        /\ store[HistoryKey("u2")] # <<>>
        /\ \E i \in 1..Len(calls[c]) :
              calls[c][i].op = "llm" /\ calls[c][i].arg = "claude"
        /\ Last(calls[c]).arg = ExpectedVoice(None)

---------------------------------------------------------------------------
(* C15: a log keeps its entries in the order of their appends, and the read *)
(* at context time returns its last min(10, length) entries oldest first.   *)
(* A step that changes a log either deletes it (expiry) or adds one entry   *)
(* at its tail, every earlier entry keeping its place.  The step in which   *)
(* lrange answers sets the history window to n = min(10, length) entries,   *)
(* the i-th being entry length - n + i of the log; none when the log does   *)
(* not exist.                                                               *)

Min(a, b) == IF a <= b THEN a ELSE b

C15_OrderAndWindow ==
    [][ /\ \A k \in Keys :
             store'[k] # store[k] =>
                \/ store'[k] = <<>>
                \/ /\ Len(store'[k]) = Len(store[k]) + 1
                   /\ \A i \in 1..Len(store[k]) : store'[k][i] = store[k][i]
        /\ \A c \in Conns :
             (pc[c] = "lrange" /\ pc'[c] = "send_ready") =>
                LET log == store["conversation:" \o user_context[c]["userId"]]
                    n == Min(10, Len(log))
                    window == conversation_history'[c].items
                IN
                /\ Len(window) = n
                /\ \A i \in 1..n : window[i] = log[Len(log) - n + i] ]_vars

\* the log had ten entries, a turn of this session added two, and the next
\* context event read the entries 3 to 12
C15_Witness ==
    \E c \in Conns :
        LET log == store[HistoryKey("u1")] IN
        /\ HandlingContext(c) /\ pc[c] = "send_ready"
        /\ Len(log) = 12
        /\ log[11] = Entry("user", "hi")
        /\ log[12] = Entry("assistant", ClaudeText("hi"))
        /\ conversation_history[c] = List(SubSeq(log, 3, 12))

---------------------------------------------------------------------------
(* C16: every wait of a turn is bounded.  On each connection a turn that    *)
(* has sent processing start leads to that turn having sent processing end, *)
(* or to the transport being closed, whatever the collaborators do.         *)

C16_TurnsEnd ==
    \A c \in Conns : TurnOpen(c) ~> (~TurnOpen(c) \/ ~open[c])

---------------------------------------------------------------------------
(* C17: a turn in which every stage succeeds sends processing start,        *)
(* transcript, response, audio, processing end, one of each in that order,  *)
(* also when the transcript is empty.  The transcript envelope carries the  *)
(* transcription of the audio received, the response is the provider's      *)
(* answer to that transcript (for claude the reply to it or the fallback),  *)
(* the audio is the synthesis of that response; transcribe, complete and    *)
(* synthesize are each called once, in that order.                          *)

ProviderCalls(cs) ==
    SelectSeq(OpsOf(cs), LAMBDA op : op \in {"transcribe", "llm", "synthesize"})

RepliesTo(provider, prompt) ==
    CASE provider = "claude" -> {"re:" \o prompt, ClaudeFallback}
      [] provider = "gemini" -> {GeminiText}
      [] provider = "openai" -> {OpenAIText}
      [] OTHER -> {}

C17_SuccessSequence ==
    \A c \in Conns :
        (HandlingAudio(c) /\ pc[c] = "receive" /\ ~StageFailed(c)) =>
            LET s == sent[c]
                text == OwnTranscript(c)
            IN
            /\ TypesOf(s) = <<"processing", "transcript", "response", "audio",
                              "processing">>
            /\ IsStart(s[1]) /\ IsEnd(s[5])
            /\ s[2] = TranscriptEnv(text)
            /\ s[3].text \in RepliesTo(SelectedProvider(c), text)
            /\ s[4] = AudioEnv(B64Encode(EdgeTts(s[3].text,
                                                  VoiceName(user_context[c]))))
            /\ ProviderCalls(calls[c]) = <<"transcribe", "llm", "synthesize">>

\* the audio of user u1 was silence: the empty transcript was sent, claude
\* answered the empty prompt, the answer was synthesized and the turn ended
C17_Witness ==
    \E c \in Conns :
        /\ HandlingAudio(c) /\ pc[c] = "receive" /\ ~StageFailed(c)
        /\ user_context[c] = CtxU1
        /\ sent[c][2] = TranscriptEnv("")
        /\ sent[c][3] = ResponseEnv(ClaudeText(""))
        /\ sent[c][4] = AudioEnv(B64Encode(EdgeTts(ClaudeText(""), DefaultVoice)))

---------------------------------------------------------------------------
(* C18: an audio event received before any context event is a full turn.   *)
(* With user_context still None the turn is framed by processing start and  *)
(* processing end, asks claude, synthesizes with en-US-AriaNeural and       *)
(* pitch, rate, volume 1.0, makes no cache call and changes no log or       *)
(* expiry; when none of its stages fails it sends transcript, response and  *)
(* audio.                                                                   *)

BeforeContext(c) == user_context[c] = None /\ HandlingAudio(c)

C18_AudioBeforeContext ==
    /\ [](\A c \in Conns :
            BeforeContext(c) =>
                /\ pc[c] # "send_start" => (sent[c] # <<>> \/ ~open[c])
                /\ sent[c] # <<>> => IsStart(sent[c][1])
                /\ pc[c] = "receive" => Framed(sent[c])
                /\ \A i \in 1..Len(calls[c]) :
                      LET call == calls[c][i] IN
                      /\ call.op \notin {"lrange", "rpush", "expire"}
                      /\ call.op = "llm" => call.arg = "claude"
                      /\ call.op = "synthesize" =>
                            call.arg = [voice_name |-> "en-US-AriaNeural",
                                        pitch |-> 10, rate |-> 10, volume |-> 10]
                /\ (pc[c] = "receive" /\ ~StageFailed(c)) =>
                      /\ TypesOf(sent[c]) = <<"processing", "transcript",
                                              "response", "audio", "processing">>
                      /\ OpsOf(calls[c]) = <<"b64decode", "transcribe", "llm",
                                             "synthesize">>)
    /\ [][\A c \in Conns :
            (BeforeContext(c) /\ pc'[c] # pc[c]) =>
                store' = store /\ ttl' = ttl]_vars

\* the first frame of the session was an audio event and its turn ran to the
\* end with claude and the default voice
C18_Witness ==
    \E c \in Conns :
        /\ BeforeContext(c) /\ pc[c] = "receive" /\ ~StageFailed(c)
        /\ frames_left = MaxFrames - 1
        /\ Last(calls[c]).op = "synthesize"
        /\ calls[c][3] = Call("llm", "claude", TRUE)

---------------------------------------------------------------------------
(* C19: the order of the two entries of a turn.  A log changes only by its  *)
(* expiry, by the append of a user entry, made by a task whose last         *)
(* envelope is the transcript with that content and which has not called    *)
(* the language model, or by the append of an assistant entry, made by a    *)
(* task whose last envelope is the response with that content and which has *)
(* not called the synthesis; unless the log expired in between, the entry   *)
(* before the assistant entry is the user entry of the same turn.  Hence    *)
(* every assistant entry that is not the head of a log follows a user       *)
(* entry, a log has no more assistant than user entries unless an expiry    *)
(* cut a turn's user entry off its head, and a turn that failed at the      *)
(* language-model stage leaves its user entry last in the log.              *)

Count(log, role) == Cardinality({i \in 1..Len(log) : log[i].role = role})

NotCalled(c, op) == \A i \in 1..Len(calls[c]) : calls[c][i].op # op

UserAppend(c, k) ==
    /\ store'[k] = Append(store[k], [role |-> "user", content |-> transcript[c]])
    /\ Last(sent[c]) = TranscriptEnv(transcript[c])
    /\ NotCalled(c, "llm") /\ pc[c] # "llm"

AssistantAppend(c, k) ==
    /\ store'[k] = Append(store[k],
                           [role |-> "assistant", content |-> response_text[c]])
    /\ Last(sent[c]) = ResponseEnv(response_text[c])
    /\ NotCalled(c, "synthesize") /\ pc[c] # "synthesize"
    /\ store[k] # <<>> =>
            Last(store[k]) = [role |-> "user", content |-> transcript[c]]

FailedAtComplete(c) ==
    /\ HandlingAudio(c) /\ calls[c] # <<>>
    /\ Last(calls[c]).op = "llm" /\ ~Last(calls[c]).ok

C19_EntryOrder ==
    /\ [][\A k \in Keys :
            store'[k] # store[k] =>
                \/ store'[k] = <<>>
                \/ \E c \in Conns : UserAppend(c, k) \/ AssistantAppend(c, k)]_vars
    /\ [](\A k \in Keys :
            LET log == store[k] IN
            /\ \A i \in 2..Len(log) :
                  log[i].role = "assistant" => log[i - 1].role = "user"
            /\ Count(log, "assistant") <=
                  Count(log, "user")
                  + (IF log # <<>> /\ log[1].role = "assistant" THEN 1 ELSE 0))
    /\ [](\A c \in Conns :
            (FailedAtComplete(c) /\ ContextHasUser(user_context[c])) =>
                LET log == store["conversation:" \o user_context[c]["userId"]] IN
                log # <<>> =>
                    Last(log) = [role |-> "user", content |-> transcript[c]])

\* the claude credential is missing: the turn of user u1 sent its transcript,
\* appended its user entry, failed at the language-model stage and ended; the
\* log holds that user entry and no assistant entry
C19_Witness ==
    \E c \in Conns :
        /\ FailedAtComplete(c) /\ pc[c] = "receive"
        /\ store[HistoryKey("u1")] = <<Entry("user", "hi")>>
        /\ TypesOf(sent[c]) = <<"processing", "transcript", "error", "processing">>

---------------------------------------------------------------------------
(* C20: a turn writes only to the log of the user of its session.  Every    *)
(* cache call of a turn names the key conversation:<userId> of the          *)
(* session's context; the context does not change while the turn runs; and  *)
(* a step of a turn changes the entries and the expiry of no other key,     *)
(* whatever the other connections do and whatever contexts came before.     *)

OwnKey(c) ==
    IF Field(user_context[c], "userId", "") = "" THEN "none"
    ELSE "conversation:" \o user_context[c]["userId"]

C20_OwnLogOnly ==
    /\ [](\A c \in Conns :
            HandlingAudio(c) =>
                \A i \in 1..Len(calls[c]) :
                    calls[c][i].op \in {"rpush", "expire"} =>
                        calls[c][i].arg = OwnKey(c))
    /\ [][\A c \in Conns :
            (pc[c] \in TurnLabels /\ pc'[c] # pc[c]) =>
                /\ user_context'[c] = user_context[c]
                /\ \A k \in Keys \ {OwnKey(c)} :
                      store'[k] = store[k] /\ ttl'[k] = ttl[k]]_vars

\* c1, of user u1, and c2, of user u2, are both in a turn; each has appended
\* its user entry to the log of its own user
C20_Witness ==
    /\ user_context["c1"] = CtxU1 /\ user_context["c2"] = CtxU2Gemini
    /\ TurnOpen("c1") /\ TurnOpen("c2")
    /\ pc["c1"] = "llm" /\ pc["c2"] = "rpush_assistant"
    /\ store[HistoryKey("u1")] = <<Entry("user", "hi")>>
    /\ store[HistoryKey("u2")] = <<Entry("user", "bye")>>

=============================================================================
